---- MODULE Spec2Model ----
(***************************************************************************)
(* Model of the MCP HTTP client of src/mcpshittester.py: the client object *)
(* MCPHTTPClient (session token, aiohttp session), its low-level _post     *)
(* (headers, status check, token capture, SSE / JSON decoding), the RPC    *)
(* wrappers initialize / list_tools / call_tool and the two flows          *)
(* execute_trade and run_alpaca_executor.                                  *)
(*                                                                         *)
(* Text is a sequence of characters, each character a one-element string   *)
(* (LS stands for the single character U+2028).                            *)
(***************************************************************************)
EXTENDS Integers, Sequences, FiniteSets, TLC

\* ------------------------------------------------------------------ bounds
\* Largest number of lines (joined by line breaks) of an enumerated body.
MaxLines == 3
\* Largest number of calls the free-form driver makes on one client.
MaxCalls == 3

\* ------------------------------------------------------- program constants
\* text[:300] of the status >= 400 error (line 65).
HttpExcerptLen == 300
\* text[:200] of the "Unexpected MCP response" error (line 88).
UnexpectedExcerptLen == 200
\* resp.status >= 400 (line 64).
ErrorStatusFloor == 400

\* Python's None (session_id, http, a missing header, no extra_headers).
None == "<None>"
\* Python truthiness of an optional string: None and "" are falsy.
Truthy(x) == x /= None /\ x /= ""

\* ------------------------------------------------------------- characters
NL == "\n"
LS == "<U+2028>"
SP == " "
QUOTE == "\""
Digits == {"1", "2"}
\* str.splitlines() boundaries that occur in the modelled alphabet.
LineBreaks == {NL, LS}
\* Characters str.strip() removes (Unicode whitespace).
PyWhitespace == {SP, NL, LS}
\* Whitespace json.loads skips around a document (U+2028 is not one).
JsonWhitespace == {SP, NL}
\* Characters a JSON string may not hold unescaped: the quote and control
\* characters (U+2028 is allowed).
JsonStringForbidden == {QUOTE, NL}
\* The literal prefix "data:" (lines 75, 77).
DataPrefix == <<"d", "a", "t", "a", ":">>

SetMin(S) == CHOOSE x \in S : \A y \in S : x <= y
SetMax(S) == CHOOSE x \in S : \A y \in S : x >= y

\* text[:n]
Take(text, n) == SubSeq(text, 1, IF Len(text) < n THEN Len(text) ELSE n)

\* str.splitlines(): the pieces between line breaks, the breaks removed; a
\* break at the very end opens no further (empty) line.
Splitlines(text) ==
    LET n == Len(text)
        brk == {i \in 1..n : text[i] \in LineBreaks}
        starts == IF n = 0 THEN {} ELSE {1} \cup {i + 1 : i \in {j \in brk : j < n}}
        EndOf(s) == IF \E b \in brk : b >= s
                    THEN SetMin({b \in brk : b >= s}) - 1
                    ELSE n
        Nth(k) == CHOOSE s \in starts : Cardinality({u \in starts : u < s}) = k - 1
    IN [k \in 1..Cardinality(starts) |-> SubSeq(text, Nth(k), EndOf(Nth(k)))]

\* str.startswith
StartsWith(s, p) == Len(s) >= Len(p) /\ SubSeq(s, 1, Len(p)) = p

\* str.strip() for the whitespace set ws
Strip(s, ws) ==
    LET keep == {i \in 1..Len(s) : s[i] \notin ws}
    IN IF keep = {} THEN << >> ELSE SubSeq(s, SetMin(keep), SetMax(keep))

\* ------------------------------------------------------------------- JSON
\* A decoded JSON value: a number or a string (the JSON fragment the modelled
\* alphabet can spell).
NoValue == [t |-> "none", n |-> 0, s |-> << >>]
JsonNumber(n) == [t |-> "num", n |-> n, s |-> << >>]
JsonString(s) == [t |-> "str", n |-> 0, s |-> s]

DigitVal(c) == IF c = "1" THEN 1 ELSE 2

RECURSIVE DigitsToNat(_)
DigitsToNat(ds) ==
    IF ds = << >> THEN 0
    ELSE 10 * DigitsToNat(SubSeq(ds, 1, Len(ds) - 1)) + DigitVal(ds[Len(ds)])

\* A decoded JSON object of the spelled fragment: no member, or one member
\* whose value is a number (key in s, value in n).
EmptyObject == [t |-> "obj", n |-> 0, s |-> << >>]
JsonObject(key, n) == [t |-> "obj", n |-> n, s |-> key]

\* json.loads of b (no whitespace around it) when b is neither a number nor
\* a string: the objects {} and {"key": number}; anything else the alphabet
\* spells is no JSON document.
JsonLoadsObject(b) ==
    LET fail == [ok |-> FALSE, val |-> NoValue]
        inner == Strip(SubSeq(b, 2, Len(b) - 1), JsonWhitespace)
        quotes == {i \in 2..Len(inner) : inner[i] = QUOTE}
        q == SetMin(quotes)
        key == SubSeq(inner, 2, q - 1)
        rest == Strip(SubSeq(inner, q + 1, Len(inner)), JsonWhitespace)
        digits == Strip(SubSeq(rest, 2, Len(rest)), JsonWhitespace)
    IN IF ~(Len(b) >= 2 /\ b[1] = "{" /\ b[Len(b)] = "}") THEN fail
       ELSE IF inner = << >> THEN [ok |-> TRUE, val |-> EmptyObject]
       ELSE IF /\ inner[1] = QUOTE
               /\ quotes /= {}
               /\ \A i \in 1..Len(key) : key[i] \notin JsonStringForbidden
               /\ rest /= << >>
               /\ rest[1] = ":"
               /\ digits /= << >>
               /\ \A i \in 1..Len(digits) : digits[i] \in Digits
            THEN [ok |-> TRUE, val |-> JsonObject(key, DigitsToNat(digits))]
            ELSE fail

\* json.loads: [ok, val]; ok = FALSE stands for json.JSONDecodeError.
JsonLoads(s) ==
    LET b == Strip(s, JsonWhitespace)
    IN IF b /= << >> /\ \A i \in 1..Len(b) : b[i] \in Digits
       THEN [ok |-> TRUE, val |-> JsonNumber(DigitsToNat(b))]
       ELSE IF /\ Len(b) >= 2
               /\ b[1] = QUOTE
               /\ b[Len(b)] = QUOTE
               /\ \A i \in 2..(Len(b) - 1) : b[i] \notin JsonStringForbidden
            THEN [ok |-> TRUE, val |-> JsonString(SubSeq(b, 2, Len(b) - 1))]
            ELSE JsonLoadsObject(b)

\* json.loads(line[len("data:"):].strip()) of line 77
ParseDataLine(line) ==
    JsonLoads(Strip(SubSeq(line, Len(DataPrefix) + 1, Len(line)), PyWhitespace))

\* The loop of lines 73-79 over the first k lines: the values of the lines
\* that start with "data:" and parse, in body order.
RECURSIVE CollectMessages(_, _)
CollectMessages(lines, k) ==
    IF k = 0 THEN << >>
    ELSE LET rest == CollectMessages(lines, k - 1)
             line == lines[k]
         IN IF StartsWith(line, DataPrefix) /\ ParseDataLine(line).ok
            THEN Append(rest, ParseDataLine(line).val)
            ELSE rest

SseMessages(text) == CollectMessages(Splitlines(text), Len(Splitlines(text)))


\* -------------------------------------------------------------- headers
\* A header dict is a function from header names to values.
SidHeader == "mcp-session-id"
\* MCP_VERSION (line 28)
MCP_VERSION == "2024-11-05"
\* extra_headers = None (or {}): nothing to add.
NoExtra == << >>
\* The headers every request starts from (lines 51-55).
BaseHeaders ==
    ("Content-Type" :> "application/json")
        @@ ("Accept" :> "application/json, text/event-stream")
        @@ ("mcp-protocol-version" :> MCP_VERSION)

\* dict.update: the entries of e are added to h, replacing those h has.
DictUpdate(h, e) ==
    [k \in DOMAIN h \cup DOMAIN e |-> IF k \in DOMAIN e THEN e[k] ELSE h[k]]

\* dict.get(k): the value, or None
DictGet(h, k) == IF k \in DOMAIN h THEN h[k] ELSE None

\* Mutant of WithSession: the token is never put into the headers.
WithSessionDropped(h, token) == h

\* if self.session_id: headers["mcp-session-id"] = self.session_id (56-57)
WithSession(h, token) ==
    IF Truthy(token) THEN DictUpdate(h, SidHeader :> token) ELSE h

\* if extra_headers: headers.update(extra_headers) (58-59)
WithExtra(h, extra) ==
    IF DOMAIN extra /= {} THEN DictUpdate(h, extra) ELSE h

\* The headers _post builds (lines 51-59).
BuildHeaders(token, extra) == WithExtra(WithSession(BaseHeaders, token), extra)

\* ------------------------------------------------------------- payloads
\* Mutant of CallToolPayload: the id of list_tools is used.
CallToolPayloadIdOfList(name) == [id |-> 2, method |-> "tools/call", tool |-> name]

\* The JSON-RPC envelopes of initialize, list_tools and call_tool.
InitializePayload == [id |-> 1, method |-> "initialize", tool |-> None]
ListToolsPayload == [id |-> 2, method |-> "tools/list", tool |-> None]
CallToolPayload(name) == [id |-> 3, method |-> "tools/call", tool |-> name]

\* The calls of execute_trade, in order (lines 132-142).
ExecuteTradeScript == <<InitializePayload, CallToolPayload("place_stock_order")>>
\* The calls of run_alpaca_executor, in order (lines 151-179).
RunAlpacaExecutorScript ==
    << InitializePayload,
       ListToolsPayload,
       CallToolPayload("get_account_info"),
       CallToolPayload("get_positions"),
       CallToolPayload("place_stock_order") >>

Script(p) ==
    IF p = "execute_trade" THEN ExecuteTradeScript
    ELSE IF p = "run_alpaca_executor" THEN RunAlpacaExecutorScript
    ELSE << >>

\* --------------------------------------------------------------- replies
\* resp.status values: success, the two sides of the >= 400 test, a 5xx.
Statuses == {200, 399, 400, 500}
\* resp.headers.get("mcp-session-id"): None when the reply has no such
\* header, else its value (which may be the empty string).
Tokens == {"A", "B"}
SidValues == {None, ""} \cup Tokens

\* Lines a body is put together from: SSE events that parse (the second with
\* whitespace around the value), an SSE line that does not parse, a bare JSON
\* number, a lone quote, the empty line.
LineVocab ==
    { DataPrefix \o <<"1">>,
      DataPrefix \o <<SP, "2", SP>>,
      DataPrefix \o <<"x">>,
      <<"1">>,
      <<QUOTE>>,
      << >> }

\* The bodies of at most n lines: a line, or a shorter body, a line break and
\* a line.
RECURSIVE BodiesOf(_)
BodiesOf(n) ==
    IF n = 0 THEN {}
    ELSE LineVocab
           \cup {b \o <<sep>> \o l : b \in BodiesOf(n - 1), sep \in LineBreaks, l \in LineVocab}

\* n characters that are no JSON and no SSE event.
Padding(n) == [i \in 1..n |-> "x"]
\* Bodies around the two excerpt lengths.
LongBodies ==
    {Padding(k + d) : k \in {HttpExcerptLen, UnexpectedExcerptLen}, d \in {-1, 0, 1}}

Bodies == BodiesOf(MaxLines) \cup LongBodies

\* The bodies the flows are driven with: an SSE stream with a progress event
\* and a final event, a bare JSON document, text that is neither, and a JSON
\* string holding a line that reads as an SSE event.
FlowBodies ==
    { DataPrefix \o <<"1", NL, NL>> \o DataPrefix \o <<SP, "2", NL, NL>>,
      <<"1", "2">>,
      <<"x">>,
      <<QUOTE, LS>> \o DataPrefix \o <<"1", LS, QUOTE>> }

Reply(status, sid, text) == [status |-> status, sid |-> sid, text |-> text]
NoReply == Reply(0, None, << >>)
FlowReplies == {Reply(st, sid, b) : st \in Statuses, sid \in SidValues, b \in FlowBodies}
DecodeReplies == {Reply(st, sid, b) : st \in Statuses, sid \in {None, "A"}, b \in Bodies}

\* JSON-RPC messages as bodies: an object carrying an id, an object without
\* one, and an error object (the member "error" stands for the JSON-RPC
\* error member), bare or framed as an SSE event.
IdKey == <<"i", "d">>
ErrorKey == <<"e", "r", "r", "o", "r">>
ObjectText(key, digit) == <<"{", QUOTE>> \o key \o <<QUOTE, ":", digit, "}">>
RpcBodies ==
    { ObjectText(IdKey, "1"),
      ObjectText(IdKey, "2"),
      <<"{", "}">>,
      ObjectText(ErrorKey, "1"),
      DataPrefix \o ObjectText(IdKey, "1") \o <<NL, NL>>,
      DataPrefix \o <<SP>> \o ObjectText(ErrorKey, "2") \o <<NL, NL>> }
RpcReplies == {Reply(200, sid, b) : sid \in {None, "A"}, b \in RpcBodies}

\* The message is a JSON-RPC error object / carries an id.
IsErrorObject(v) == v.t = "obj" /\ v.s = ErrorKey
HasId(v) == v.t = "obj" /\ v.s = IdKey

\* -------------------------------------------------------------- outcomes
\* What a call gives its caller: a returned message or a raised error.
\* scanned: the data: loop of lines 73-79 ran; fallback: json.loads(text) of
\* line 86 ran.
Return(val, fallback) ==
    [kind |-> "return", val |-> val, err |-> "none", status |-> 0,
     excerpt |-> << >>, scanned |-> TRUE, fallback |-> fallback]
Raise(err, status, excerpt, scanned, fallback) ==
    [kind |-> "raise", val |-> NoValue, err |-> err, status |-> status,
     excerpt |-> excerpt, scanned |-> scanned, fallback |-> fallback]
NoOutcome ==
    [kind |-> "none", val |-> NoValue, err |-> "none", status |-> 0,
     excerpt |-> << >>, scanned |-> FALSE, fallback |-> FALSE]

\* Mutant of IsErrorStatus: the test is status > 400.
IsErrorStatusStrict(status) == status > ErrorStatusFloor

\* resp.status >= 400 (line 64)
IsErrorStatus(status) == status >= ErrorStatusFloor

\* RuntimeError(f"MCP HTTP {resp.status}: {text[:300]}") (line 65)
HttpError(r) == Raise("http", r.status, Take(r.text, HttpExcerptLen), FALSE, FALSE)

\* Mutant of StoreSid: the header value is stored without the `if sid` test.
StoreSidAlways(token, sid) == sid

\* Mutant of StoreSid: the first non-empty token wins, later ones are dropped.
StoreSidFirstWins(token, sid) ==
    IF Truthy(token) THEN token ELSE IF Truthy(sid) THEN sid ELSE token

\* Mutant of StoreSid: the header is stored whenever it is present, an empty
\* value included.
StoreSidPresent(token, sid) == IF sid /= None THEN sid ELSE token

\* sid = resp.headers.get(...); if sid: self.session_id = sid (lines 68-70)
StoreSid(token, sid) == IF Truthy(sid) THEN sid ELSE token

\* Mutant of LastMessage: messages[0].
FirstMessage(messages) == messages[1]

\* messages[-1] (line 82)
LastMessage(messages) == messages[Len(messages)]

\* Mutant of UnexpectedError: the excerpt length of the HTTP error is used.
UnexpectedErrorLong(text) ==
    Raise("unexpected", 0, Take(text, HttpExcerptLen), TRUE, TRUE)

\* RuntimeError(f"Unexpected MCP response: {text[:200]}") (line 88)
UnexpectedError(text) ==
    Raise("unexpected", 0, Take(text, UnexpectedExcerptLen), TRUE, TRUE)

\* Lines 72-88: the decoding of a body of a reply with status < 400.
DecodeBody(text) ==
    LET messages == SseMessages(text)
    IN IF messages /= << >>
       THEN Return(LastMessage(messages), FALSE)
       ELSE IF JsonLoads(text).ok
            THEN Return(JsonLoads(text).val, TRUE)
            ELSE UnexpectedError(text)

\* Lines 62-88: what _post does with a reply r when the stored token is
\* `token`: the token afterwards and the outcome of the call.
\* Mutant of PostReply: the session header is stored before the status check.
PostReplyCaptureFirst(token, r) ==
    IF IsErrorStatus(r.status)
    THEN [session_id |-> StoreSid(token, r.sid), outcome |-> HttpError(r)]
    ELSE [session_id |-> StoreSid(token, r.sid), outcome |-> DecodeBody(r.text)]

\* Mutant of PostReply: the body is decoded before the session header is
\* stored, so a body that cannot be decoded leaves the token as it was.
PostReplyDecodeFirst(token, r) ==
    IF IsErrorStatus(r.status)
    THEN [session_id |-> token, outcome |-> HttpError(r)]
    ELSE IF DecodeBody(r.text).kind = "raise"
         THEN [session_id |-> token, outcome |-> DecodeBody(r.text)]
         ELSE [session_id |-> StoreSid(token, r.sid), outcome |-> DecodeBody(r.text)]

PostReply(token, r) ==
    IF IsErrorStatus(r.status)
    THEN [session_id |-> token, outcome |-> HttpError(r)]
    ELSE [session_id |-> StoreSid(token, r.sid), outcome |-> DecodeBody(r.text)]


\* ---------------------------------------------------------------- state
Clients == {"c1", "c2"}
Tasks == {"t1", "t2"}
\* What a task runs: one of the two flows of the source, or a free-form
\* driver that uses a client as a library (any calls, in or out of the
\* client's scope, catching their errors); "none" is a task that never runs.
Flows == {"execute_trade", "run_alpaca_executor"}
Programs == Flows \cup {"driver"}

\* extra_headers values the driver passes to _post.
ExtraChoices ==
    { SidHeader :> "X",
      SidHeader :> "",
      "Accept" :> "text/plain" }
\* The payloads the driver sends.
DriverPayloads == {InitializePayload, ListToolsPayload, CallToolPayload("get_positions")}

NoPayload == [id |-> 0, method |-> "none", tool |-> None]
\* A request on the wire: its headers, and what they were built from.
Request(token, extra, payload) ==
    [headers |-> BuildHeaders(token, extra), token |-> token,
     extra |-> extra, payload |-> payload]
NoRequest ==
    [headers |-> << >>, token |-> None, extra |-> NoExtra, payload |-> NoPayload]

VARIABLES
    session_id,   \* client -> self.session_id (line 37): None or the stored token
    http,         \* client -> self.http (lines 38, 41, 47): None or "session"
    opened,       \* client -> aiohttp sessions created (41) and not yet closed (46)
    prog,         \* task -> the program it runs (lines 128, 146, or a library user)
    client,       \* task -> the client it uses (mcp of lines 131, 149)
    pc,           \* task -> "outside", "scope", "inflight", "raised", "done", "failed"
    step,         \* task -> calls of its script that have returned
    budget,       \* task -> calls the driver may still make
    request,      \* task -> the request of its current or last call (line 61)
    reply,        \* task -> the reply its last call obtained (61-63; NoReply: none)
    outcome,      \* task -> what its last call gave its caller (lines 65, 82, 86, 88)
    sent          \* task -> HTTP requests its current or last call has sent (line 61)

vars == <<session_id, http, opened, prog, client, pc, step, budget,
          request, reply, outcome, sent>>

clientVars == <<session_id, http, opened>>

\* MCPHTTPClient(MCP_URL) for each client (lines 35-38), no task started.
InitWith(progs, calls) ==
    /\ session_id = [c \in Clients |-> None]
    /\ http = [c \in Clients |-> None]
    /\ opened = [c \in Clients |-> 0]
    /\ prog \in progs
    /\ client = [t \in Tasks |-> IF t = "t1" THEN "c1" ELSE "c2"]
    /\ pc = [t \in Tasks |-> "outside"]
    /\ step = [t \in Tasks |-> 0]
    /\ budget = [t \in Tasks |-> calls]
    /\ request = [t \in Tasks |-> NoRequest]
    /\ reply = [t \in Tasks |-> NoReply]
    /\ outcome = [t \in Tasks |-> NoOutcome]
    /\ sent = [t \in Tasks |-> 0]

\* One task runs a flow or the driver on its own client.
Init == InitWith({[t \in Tasks |-> IF t = "t1" THEN p ELSE "none"] : p \in Programs}, MaxCalls)

\* __aenter__ (lines 40-42)
AEnter(c) ==
    /\ http' = [http EXCEPT ![c] = "session"]
    /\ opened' = [opened EXCEPT ![c] = @ + 1]

\* __aexit__ (lines 44-47)
AExit(c) ==
    IF http[c] /= None
    THEN /\ opened' = [opened EXCEPT ![c] = @ - 1]
         /\ http' = [http EXCEPT ![c] = None]
    ELSE UNCHANGED <<http, opened>>

\* `async with MCPHTTPClient(MCP_URL) as mcp:` (lines 131, 149) is entered.
Enter(t) ==
    /\ prog[t] \in Programs
    /\ pc[t] = "outside"
    /\ AEnter(client[t])
    /\ pc' = [pc EXCEPT ![t] = "scope"]
    /\ UNCHANGED <<session_id, prog, client, step, budget, request, reply, outcome, sent>>

\* _post up to its first await (lines 51-61): the headers are built from the
\* stored token and the request goes out; with self.http None the call
\* raises at once and nothing is sent.
SendPost(t, payload, extra) ==
    LET c == client[t]
    IN /\ reply' = [reply EXCEPT ![t] = NoReply]
       /\ IF http[c] = None
          THEN /\ request' = [request EXCEPT ![t] = NoRequest]
               /\ sent' = [sent EXCEPT ![t] = 0]
               /\ outcome' = [outcome EXCEPT ![t] = Raise("nohttp", 0, << >>, FALSE, FALSE)]
               /\ pc' = [pc EXCEPT ![t] = IF prog[t] = "driver" THEN pc[t] ELSE "raised"]
          ELSE /\ request' = [request EXCEPT ![t] = Request(session_id[c], extra, payload)]
               /\ sent' = [sent EXCEPT ![t] = 1]
               /\ outcome' = [outcome EXCEPT ![t] = NoOutcome]
               /\ pc' = [pc EXCEPT ![t] = "inflight"]
       /\ UNCHANGED <<clientVars, prog, client, step>>

\* The next call of a flow's script: initialize / list_tools / call_tool
\* (lines 93-122), each `await self._post(payload)`.
FlowCall(t) ==
    /\ prog[t] \in Flows
    /\ pc[t] = "scope"
    /\ step[t] < Len(Script(prog[t]))
    /\ SendPost(t, Script(prog[t])[step[t] + 1], NoExtra)
    /\ UNCHANGED budget

\* The driver calls initialize, list_tools or call_tool.
DriverCallOf(t, payloads) ==
    /\ prog[t] = "driver"
    /\ pc[t] \in {"outside", "scope"}
    /\ budget[t] > 0
    /\ budget' = [budget EXCEPT ![t] = @ - 1]
    /\ \E payload \in payloads : SendPost(t, payload, NoExtra)

DriverCall(t) == DriverCallOf(t, DriverPayloads)

\* The driver calls _post itself, with extra_headers.
DriverPost(t) ==
    /\ prog[t] = "driver"
    /\ pc[t] \in {"outside", "scope"}
    /\ budget[t] > 0
    /\ budget' = [budget EXCEPT ![t] = @ - 1]
    /\ \E extra \in ExtraChoices : SendPost(t, ListToolsPayload, extra)

\* Mutant of AfterCall: the flows catch the error of a call and go on.
AfterCallSwallow(t, o) == "scope"

\* Mutant of AfterCall: a returned JSON-RPC error object ends a flow like a
\* raised error.
AfterCallRpcError(t, o) ==
    IF prog[t] = "driver" THEN "scope"
    ELSE IF o.kind = "return" /\ ~IsErrorObject(o.val) THEN "scope"
    ELSE "raised"

\* Where a task goes on when its call has ended with outcome o: a flow
\* goes on in its scope after a return and leaves it with the error after a
\* raise; the driver catches the error.
AfterCall(t, o) ==
    IF o.kind = "return" \/ prog[t] = "driver" THEN "scope" ELSE "raised"

\* Mutant of Deliver: a decoded message whose id is not the id of the
\* request is refused as an unexpected response.
DeliverMatchingId(t, r) ==
    LET c == client[t]
        res == PostReply(session_id[c], r)
        o == IF /\ res.outcome.kind = "return"
                /\ HasId(res.outcome.val)
                /\ res.outcome.val.n /= request[t].payload.id
             THEN UnexpectedError(r.text)
             ELSE res.outcome
    IN /\ pc[t] = "inflight"
       /\ session_id' = [session_id EXCEPT ![c] = res.session_id]
       /\ reply' = [reply EXCEPT ![t] = r]
       /\ outcome' = [outcome EXCEPT ![t] = o]
       /\ pc' = [pc EXCEPT ![t] = IF o.kind = "return" \/ prog[t] = "driver" THEN "scope" ELSE "raised"]
       /\ step' = [step EXCEPT ![t] = IF o.kind = "return" THEN @ + 1 ELSE @]
       /\ UNCHANGED <<http, opened, prog, client, budget, request, sent>>

\* Mutant of Deliver: the token is kept in one place shared by all clients
\* (a class attribute instead of an instance attribute).
DeliverShared(t, r) ==
    LET c == client[t]
        res == PostReply(session_id[c], r)
    IN /\ pc[t] = "inflight"
       /\ session_id' = [d \in Clients |-> res.session_id]
       /\ reply' = [reply EXCEPT ![t] = r]
       /\ outcome' = [outcome EXCEPT ![t] = res.outcome]
       /\ pc' = [pc EXCEPT ![t] = IF res.outcome.kind = "return" \/ prog[t] = "driver" THEN "scope" ELSE "raised"]
       /\ step' = [step EXCEPT ![t] = IF res.outcome.kind = "return" THEN @ + 1 ELSE @]
       /\ UNCHANGED <<http, opened, prog, client, budget, request, sent>>

\* The reply r arrives and the rest of _post runs (lines 62-88).
Deliver(t, r) ==
    LET c == client[t]
        res == PostReply(session_id[c], r)
    IN /\ pc[t] = "inflight"
       /\ session_id' = [session_id EXCEPT ![c] = res.session_id]
       /\ reply' = [reply EXCEPT ![t] = r]
       /\ outcome' = [outcome EXCEPT ![t] = res.outcome]
       /\ pc' = [pc EXCEPT ![t] = AfterCall(t, res.outcome)]
       /\ step' = [step EXCEPT ![t] = IF res.outcome.kind = "return" THEN @ + 1 ELSE @]
       /\ UNCHANGED <<http, opened, prog, client, budget, request, sent>>

Receive(t) == pc[t] = "inflight" /\ \E r \in FlowReplies : Deliver(t, r)

\* Mutant of TransportFail: the failed call closes and drops the session.
TransportFailCloses(t) ==
    LET o == Raise("transport", 0, << >>, FALSE, FALSE)
    IN /\ pc[t] = "inflight"
       /\ outcome' = [outcome EXCEPT ![t] = o]
       /\ pc' = [pc EXCEPT ![t] = AfterCall(t, o)]
       /\ AExit(client[t])
       /\ UNCHANGED <<session_id, prog, client, step, budget, request, reply, sent>>

\* Mutant of TransportFail: the failed exchange is tried once more.
TransportFailRetries(t) ==
    LET o == Raise("transport", 0, << >>, FALSE, FALSE)
    IN /\ pc[t] = "inflight"
       /\ IF sent[t] < 2
          THEN /\ sent' = [sent EXCEPT ![t] = @ + 1]
               /\ UNCHANGED <<outcome, pc>>
          ELSE /\ outcome' = [outcome EXCEPT ![t] = o]
               /\ pc' = [pc EXCEPT ![t] = AfterCall(t, o)]
               /\ UNCHANGED sent
       /\ UNCHANGED <<clientVars, prog, client, step, budget, request, reply>>

\* The exchange of line 61-62 does not complete (timeout, connection or DNS
\* failure, undecodable bytes): the await raises, no reply is obtained.
TransportFail(t) ==
    LET o == Raise("transport", 0, << >>, FALSE, FALSE)
    IN /\ pc[t] = "inflight"
       /\ outcome' = [outcome EXCEPT ![t] = o]
       /\ pc' = [pc EXCEPT ![t] = AfterCall(t, o)]
       /\ UNCHANGED <<clientVars, prog, client, step, budget, request, reply, sent>>

\* The task is cancelled while it awaits the reply: CancelledError is raised
\* at the await and is caught by none of the programs.
Cancel(t) ==
    /\ pc[t] = "inflight"
    /\ outcome' = [outcome EXCEPT ![t] = Raise("cancelled", 0, << >>, FALSE, FALSE)]
    /\ pc' = [pc EXCEPT ![t] = "raised"]
    /\ UNCHANGED <<clientVars, prog, client, step, budget, request, reply, sent>>

\* The body of the `async with` ends normally: __aexit__ runs. A flow is
\* done; the driver is outside the scope again.
ScopeEnd(t) ==
    /\ pc[t] = "scope"
    /\ prog[t] \in Flows => step[t] = Len(Script(prog[t]))
    /\ AExit(client[t])
    /\ pc' = [pc EXCEPT ![t] = IF prog[t] = "driver" THEN "outside" ELSE "done"]
    /\ UNCHANGED <<session_id, prog, client, step, budget, request, reply, outcome, sent>>

\* Mutant of Unwind: the session is closed on the normal path only.
UnwindNoClose(t) ==
    /\ pc[t] = "raised"
    /\ pc' = [pc EXCEPT ![t] = "failed"]
    /\ UNCHANGED <<clientVars, prog, client, step, budget, request, reply, outcome, sent>>

\* An error leaves the `async with`: __aexit__ runs and, returning None,
\* lets the error go on to the caller.
Unwind(t) ==
    /\ pc[t] = "raised"
    /\ AExit(client[t])
    /\ pc' = [pc EXCEPT ![t] = "failed"]
    /\ UNCHANGED <<session_id, prog, client, step, budget, request, reply, outcome, sent>>

Next ==
    \E t \in Tasks :
        \/ Enter(t)
        \/ FlowCall(t)
        \/ DriverCall(t)
        \/ DriverPost(t)
        \/ Receive(t)
        \/ TransportFail(t)
        \/ Cancel(t)
        \/ ScopeEnd(t)
        \/ Unwind(t)

Spec == Init /\ [][Next]_vars

\* ---------------------------------------------------------------------
\* The decoding of one reply, for every enumerated body: the driver makes
\* one list_tools call in the client's scope and any reply arrives.
DecodeInit == InitWith({[t \in Tasks |-> IF t = "t1" THEN "driver" ELSE "none"]}, 1)

DecodeCall(t) == pc[t] = "scope" /\ DriverCallOf(t, {ListToolsPayload})

ReceiveAny(t) == pc[t] = "inflight" /\ \E r \in DecodeReplies : Deliver(t, r)

DecodeNext ==
    \E t \in Tasks :
        \/ Enter(t)
        \/ DecodeCall(t)
        \/ ReceiveAny(t)
        \/ ScopeEnd(t)

SpecDecode == DecodeInit /\ [][DecodeNext]_vars


\* ---------------------------------------------------------------------
\* The flows and the driver answered with JSON-RPC messages only: replies
\* with status 200 whose body decodes to an object.
ReceiveRpc(t) == pc[t] = "inflight" /\ \E r \in RpcReplies : Deliver(t, r)

RpcNext ==
    \E t \in Tasks :
        \/ Enter(t)
        \/ FlowCall(t)
        \/ DriverCall(t)
        \/ ReceiveRpc(t)
        \/ ScopeEnd(t)

SpecRpc == Init /\ [][RpcNext]_vars

\* ---------------------------------------------------------------------
\* Two tasks at once, each with a client of its own (as two execute_trade
\* coroutines, or two library users, run by one event loop): their steps
\* interleave in any order.
TwoReplies == {Reply(st, sid, <<"1">>) : st \in {200, 400}, sid \in {None} \cup Tokens}

TwoInit == InitWith([Tasks -> {"execute_trade", "driver"}], 2)

TwoCall(t) == DriverCallOf(t, {ListToolsPayload})

ReceiveTwo(t) == pc[t] = "inflight" /\ \E r \in TwoReplies : Deliver(t, r)

TwoNext ==
    \E t \in Tasks :
        \/ Enter(t)
        \/ FlowCall(t)
        \/ TwoCall(t)
        \/ ReceiveTwo(t)
        \/ ScopeEnd(t)
        \/ Unwind(t)

SpecTwo == TwoInit /\ [][TwoNext]_vars

\* ---------------------------------------------------------------------
\* Two tasks at once on ONE client (as asyncio.gather of two calls on mcp):
\* t1 opens the scope, both call; nothing serializes the calls, a step is
\* what runs between two awaits.
ConcReplies ==
    {Reply(st, sid, b) : st \in {200, 400}, sid \in SidValues, b \in {<<"1">>, <<"x">>}}

ConcInit ==
    /\ session_id = [c \in Clients |-> None]
    /\ http = [c \in Clients |-> None]
    /\ opened = [c \in Clients |-> 0]
    /\ prog = [t \in Tasks |-> "driver"]
    /\ client = [t \in Tasks |-> "c1"]
    /\ pc = [t \in Tasks |-> "outside"]
    /\ step = [t \in Tasks |-> 0]
    /\ budget = [t \in Tasks |-> 2]
    /\ request = [t \in Tasks |-> NoRequest]
    /\ reply = [t \in Tasks |-> NoReply]
    /\ outcome = [t \in Tasks |-> NoOutcome]
    /\ sent = [t \in Tasks |-> 0]

ConcEnter == Enter("t1")

ConcCall(t) == DriverCallOf(t, {ListToolsPayload})

ReceiveConc(t) == pc[t] = "inflight" /\ \E r \in ConcReplies : Deliver(t, r)

ConcNext ==
    \/ ConcEnter
    \/ \E t \in Tasks : ConcCall(t)
    \/ \E t \in Tasks : ReceiveConc(t)

SpecConc == ConcInit /\ [][ConcNext]_vars

\* ======================================================================
\* Properties
\* ======================================================================
\* A call of task t has obtained a reply (and _post has dealt with it).
Replied(t) == reply[t] /= NoReply

\* The lines of a body that start with "data:" and whose remainder parses.
ParseableLines(text) ==
    {k \in DOMAIN Splitlines(text) :
        /\ StartsWith(Splitlines(text)[k], DataPrefix)
        /\ ParseDataLine(Splitlines(text)[k]).ok}

\* e is the first min(n, Len(text)) characters of text.
IsExcerpt(e, text, n) ==
    /\ Len(e) = (IF Len(text) < n THEN Len(text) ELSE n)
    /\ \A i \in 1..Len(e) : e[i] = text[i]

\* C1 (as claimed): once a reply carries a (non-empty) mcp-session-id header,
\* whatever its status code, the client stores that token.
C1_TokenCapturedWhateverStatus ==
    \A t \in Tasks :
        (Replied(t) /\ Truthy(reply[t].sid))
            => session_id[client[t]] = reply[t].sid

\* C2 (as claimed): a request built while the stored token is non-empty
\* carries it in mcp-session-id for every extra_headers; with no token and
\* no extra headers the request has no such header.
C2_EchoForEveryExtra ==
    \A t \in Tasks :
        request[t] /= NoRequest =>
            /\ Truthy(request[t].token)
                   => DictGet(request[t].headers, SidHeader) = request[t].token
            /\ (~Truthy(request[t].token) /\ request[t].extra = NoExtra)
                   => SidHeader \notin DOMAIN request[t].headers

\* C2 (amended): a request in flight was built from the client's stored
\* token; if that token is non-empty and extra_headers has no mcp-session-id
\* entry, the request's mcp-session-id header equals the token; if
\* extra_headers has such an entry, the header is the entry's value; with no
\* token and no extra headers the request has no such header.
C2_EchoUnlessOverridden ==
    \A t \in Tasks :
        request[t] /= NoRequest =>
            /\ pc[t] = "inflight" => request[t].token = session_id[client[t]]
            /\ (Truthy(request[t].token) /\ SidHeader \notin DOMAIN request[t].extra)
                   => DictGet(request[t].headers, SidHeader) = request[t].token
            /\ SidHeader \in DOMAIN request[t].extra
                   => DictGet(request[t].headers, SidHeader) = request[t].extra[SidHeader]
            /\ (~Truthy(request[t].token) /\ request[t].extra = NoExtra)
                   => SidHeader \notin DOMAIN request[t].headers

\* C2 witness: a request in flight, built with a stored token and with extra
\* headers that do not name mcp-session-id.
C2_Witness ==
    \E t \in Tasks :
        /\ pc[t] = "inflight"
        /\ Truthy(request[t].token)
        /\ request[t].extra /= NoExtra
        /\ SidHeader \notin DOMAIN request[t].extra
        /\ request[t].headers[SidHeader] = request[t].token

\* C3: a call whose reply carries no mcp-session-id header leaves the stored
\* token as it was, whether the call returns or fails.
C3_NoHeaderKeepsToken ==
    [][\A t \in Tasks :
          (pc[t] = "inflight" /\ Replied(t)' /\ reply'[t].sid = None)
              => session_id'[client[t]] = session_id[client[t]]]_vars

\* C3 witness: a call with status < 400 failed on a reply without the header
\* and the client still holds a token.
C3_Witness ==
    \E t \in Tasks :
        /\ Replied(t)
        /\ reply[t].sid = None
        /\ reply[t].status < 400
        /\ outcome[t].kind = "raise"
        /\ Truthy(session_id[client[t]])

\* C4: for every reply with status >= 400 the call raises the HTTP error,
\* whatever the body: no message, no parsing of the body, the error carries
\* the status and the first 300 characters of the body at most.
C4_ErrorStatusRaises ==
    \A t \in Tasks :
        (Replied(t) /\ reply[t].status >= 400) =>
            /\ outcome[t].kind = "raise"
            /\ outcome[t].err = "http"
            /\ outcome[t].val = NoValue
            /\ ~outcome[t].scanned
            /\ ~outcome[t].fallback
            /\ outcome[t].status = reply[t].status
            /\ IsExcerpt(outcome[t].excerpt, reply[t].text, 300)

\* C4 witness: a reply with status 400 whose body has parseable data: lines
\* was answered with the HTTP error.
C4_Witness ==
    \E t \in Tasks :
        /\ Replied(t)
        /\ reply[t].status = 400
        /\ ParseableLines(reply[t].text) /= {}
        /\ outcome[t].err = "http"

\* C5: for a reply with status < 400 whose body has a parseable data: line,
\* the call returns the value of the last such line in body order.
C5_LastParseableLine ==
    \A t \in Tasks :
        (Replied(t) /\ reply[t].status < 400 /\ ParseableLines(reply[t].text) /= {}) =>
            LET k == SetMax(ParseableLines(reply[t].text))
            IN /\ outcome[t].kind = "return"
               /\ outcome[t].val = ParseDataLine(Splitlines(reply[t].text)[k]).val

\* C5 witness: a returned value of the last of two parseable data: lines
\* with different values, a data: line that does not parse between them.
C5_Witness ==
    \E t \in Tasks :
        /\ Replied(t)
        /\ reply[t].status < 400
        /\ outcome[t].kind = "return"
        /\ LET lines == Splitlines(reply[t].text)
           IN /\ Len(lines) = 3
              /\ ParseableLines(reply[t].text) = {1, 3}
              /\ StartsWith(lines[2], DataPrefix)
              /\ ParseDataLine(lines[1]).val /= ParseDataLine(lines[3]).val
              /\ outcome[t].val = ParseDataLine(lines[3]).val

\* C6: for a reply with status < 400 whose body has no parseable data: line
\* the whole body is parsed as JSON and returned, or the call raises the
\* 'unexpected response' error with the first 200 characters of the body at
\* most; the whole body is parsed only when no data: line parsed.
C6_FallbackToWholeBody ==
    \A t \in Tasks :
        (Replied(t) /\ reply[t].status < 400) =>
            IF ParseableLines(reply[t].text) = {}
            THEN /\ outcome[t].fallback
                 /\ IF JsonLoads(reply[t].text).ok
                    THEN /\ outcome[t].kind = "return"
                         /\ outcome[t].val = JsonLoads(reply[t].text).val
                    ELSE /\ outcome[t].kind = "raise"
                         /\ outcome[t].err = "unexpected"
                         /\ outcome[t].val = NoValue
                         /\ IsExcerpt(outcome[t].excerpt, reply[t].text, 200)
            ELSE ~outcome[t].fallback

\* C6 witness: a body of more than 200 characters that is neither SSE nor
\* JSON was answered with the 'unexpected response' error.
C6_Witness ==
    \E t \in Tasks :
        /\ Replied(t)
        /\ reply[t].status < 400
        /\ Len(reply[t].text) > 200
        /\ outcome[t].err = "unexpected"
        /\ Len(outcome[t].excerpt) = 200

\* C7 (as claimed): for a reply with status < 400 whose body is a valid JSON
\* document the call returns the value of that document.
C7_JsonBodyVerbatim ==
    \A t \in Tasks :
        (Replied(t) /\ reply[t].status < 400 /\ JsonLoads(reply[t].text).ok) =>
            /\ outcome[t].kind = "return"
            /\ outcome[t].val = JsonLoads(reply[t].text).val

\* C8: once control has left the client's scope in execute_trade or
\* run_alpaca_executor (normally or with an error), the aiohttp session is
\* closed and self.http is None; and a flow never stops inside its scope.
C8_ReleasedOnEveryExit ==
    \A t \in Tasks :
        prog[t] \in Flows =>
            /\ pc[t] \in {"done", "failed"}
                   => (http[client[t]] = None /\ opened[client[t]] = 0)
            /\ pc[t] \in {"scope", "inflight", "raised"}
                   => (opened[client[t]] = 1 /\ ENABLED Next)

\* C8 witness: run_alpaca_executor was cancelled in a later call and has left
\* the scope with the session closed.
C8_Witness ==
    \E t \in Tasks :
        /\ prog[t] = "run_alpaca_executor"
        /\ pc[t] = "failed"
        /\ outcome[t].err = "cancelled"
        /\ step[t] >= 1
        /\ opened[client[t]] = 0

\* C9: a call that fails because no reply is obtained raises to its caller
\* and leaves self.http open and the stored token as they were; a call sent
\* afterwards on the still-open client goes out and is built from that token.
C9_TransportFailureKeepsClient ==
    [][\A t \in Tasks :
          /\ (pc[t] = "inflight" /\ outcome'[t].err = "transport") =>
                /\ outcome'[t].kind = "raise"
                /\ http[client[t]] /= None
                /\ http' = http
                /\ opened' = opened
                /\ session_id' = session_id
          /\ (outcome[t].err = "transport" /\ pc[t] = "scope" /\ pc'[t] /= "scope"
                  /\ request'[t] /= request[t]) =>
                /\ pc'[t] = "inflight"
                /\ sent'[t] = 1
                /\ request'[t].token = session_id[client[t]]
                /\ (Truthy(session_id[client[t]]) /\ request'[t].extra = NoExtra)
                       => DictGet(request'[t].headers, SidHeader) = session_id[client[t]]]_vars

\* C9 witness: the driver's call failed in transport; the client is open,
\* holds a token, and the driver may call again.
C9_Witness ==
    \E t \in Tasks :
        /\ prog[t] = "driver"
        /\ outcome[t].err = "transport"
        /\ pc[t] = "scope"
        /\ budget[t] > 0
        /\ http[client[t]] /= None
        /\ Truthy(session_id[client[t]])

\* C10: a call sends one HTTP request when it starts (none if self.http is
\* None) and never another; when the exchange ends the call ends with it,
\* and a failure is raised to the caller with no message.
C10_OneRequestNoRetry ==
    [][\A t \in Tasks :
          /\ sent'[t] <= 1
          /\ (pc[t] /= "inflight" /\ pc'[t] = "inflight") => sent'[t] = 1
          /\ (pc[t] /= "inflight" /\ outcome'[t] /= outcome[t]) =>
                (IF http[client[t]] = None
                 THEN sent'[t] = 0 /\ outcome'[t].kind = "raise" /\ pc'[t] /= "inflight"
                 ELSE sent'[t] = 1 /\ pc'[t] = "inflight")
          /\ (pc[t] = "inflight" /\ <<pc[t], outcome[t], sent[t], request[t]>>
                                       /= <<pc'[t], outcome'[t], sent'[t], request'[t]>>) =>
                /\ sent'[t] = sent[t]
                /\ request'[t] = request[t]
                /\ pc'[t] /= "inflight"
                /\ outcome'[t].kind \in {"return", "raise"}
                /\ outcome'[t].kind = "raise" =>
                      /\ outcome'[t].val = NoValue
                      /\ prog[t] \in Flows => pc'[t] = "raised"]_vars

\* C10 witness: a flow's call failed on an undecodable body after its one
\* request, and the error is on its way out of the flow.
C10_Witness ==
    \E t \in Tasks :
        /\ prog[t] \in Flows
        /\ pc[t] = "raised"
        /\ outcome[t].err = "unexpected"
        /\ sent[t] = 1

\* What a payload asks for: the tool of a tools/call, else the method.
Asked(p) == IF p.method = "tools/call" THEN p.tool ELSE p.method

\* C11: a flow sends its requests one at a time in the order of its source
\* (run_alpaca_executor: initialize, tools/list, get_account_info,
\* get_positions, place_stock_order; execute_trade: initialize,
\* place_stock_order); the request of step k+1 goes out only from inside the
\* scope after the call of step k has returned, a step counts as done only
\* when its reply was decoded without error, and place_stock_order goes out
\* only when every earlier step has returned.
C11_SequentialOrder ==
    [][\A t \in Tasks :
          prog[t] \in Flows =>
              LET order == IF prog[t] = "run_alpaca_executor"
                           THEN <<"initialize", "tools/list", "get_account_info",
                                  "get_positions", "place_stock_order">>
                           ELSE <<"initialize", "place_stock_order">>
              IN /\ (request'[t] /= request[t] \/ (pc[t] /= "inflight" /\ pc'[t] = "inflight")) =>
                       /\ pc[t] = "scope"
                       /\ pc'[t] = "inflight"
                       /\ step[t] = 0 \/ outcome[t].kind = "return"
                       /\ step[t] < Len(order)
                       /\ Asked(request'[t].payload) = order[step[t] + 1]
                 /\ step'[t] /= step[t] =>
                       /\ pc[t] = "inflight"
                       /\ step'[t] = step[t] + 1
                       /\ Replied(t)'
                       /\ reply'[t].status < 400
                       /\ outcome'[t].kind = "return"
                 /\ (pc'[t] = "inflight" /\ Asked(request'[t].payload) = "place_stock_order") =>
                       step'[t] = Len(order) - 1]_vars

\* C11 witness: run_alpaca_executor has its place_stock_order request in
\* flight after four returned calls.
C11_Witness ==
    \E t \in Tasks :
        /\ prog[t] = "run_alpaca_executor"
        /\ pc[t] = "inflight"
        /\ Asked(request[t].payload) = "place_stock_order"
        /\ step[t] = 4

\* C12 (as claimed): a call's request carries an id distinct from the id of
\* every earlier call of the session; here, of the call before it.
C12_IdsDistinct ==
    [][\A t \in Tasks :
          (request[t] /= NoRequest /\ request'[t] /= NoRequest /\ request'[t] /= request[t])
              => request'[t].payload.id /= request[t].payload.id]_vars

\* C12 (amended): the id of a request is fixed by the wrapper that builds it:
\* 1 for initialize, 2 for tools/list, 3 for tools/call; so calls of
\* different wrappers carry different ids and all call_tool calls (and
\* repeated calls of one wrapper) carry the same id.
C12_IdFixedByWrapper ==
    \A t \in Tasks :
        request[t] /= NoRequest =>
            /\ request[t].payload.method \in {"initialize", "tools/list", "tools/call"}
            /\ request[t].payload.id = 1 <=> request[t].payload.method = "initialize"
            /\ request[t].payload.id = 2 <=> request[t].payload.method = "tools/list"
            /\ request[t].payload.id = 3 <=> request[t].payload.method = "tools/call"

\* C12 witness: run_alpaca_executor has its second call_tool request
\* (get_positions) in flight, with id 3 like the one before it.
C12_Witness ==
    \E t \in Tasks :
        /\ prog[t] = "run_alpaca_executor"
        /\ pc[t] = "inflight"
        /\ step[t] = 3
        /\ request[t].payload.tool = "get_positions"
        /\ request[t].payload.id = 3

\* The message a decodable body stands for: the value of its last parseable
\* data: line, else the value of the whole body.
MessageOf(text) ==
    IF ParseableLines(text) /= {}
    THEN ParseDataLine(Splitlines(text)[SetMax(ParseableLines(text))]).val
    ELSE JsonLoads(text).val

\* C13: for every request and every decodable reply with status < 400 the
\* call returns the decoded message, whether the message's id equals the id
\* of the request, differs from it or is absent.
C13_NoIdCorrelation ==
    \A t \in Tasks :
        (Replied(t) /\ reply[t].status < 400
            /\ (ParseableLines(reply[t].text) /= {} \/ JsonLoads(reply[t].text).ok)) =>
            /\ request[t].payload.id \in {1, 2, 3}
            /\ outcome[t].kind = "return"
            /\ outcome[t].val = MessageOf(reply[t].text)

\* C13 witness: a call returned a message whose id is not the id of its
\* request.
C13_Witness ==
    \E t \in Tasks :
        /\ Replied(t)
        /\ outcome[t].kind = "return"
        /\ HasId(outcome[t].val)
        /\ outcome[t].val.n /= request[t].payload.id

\* C14: a reply with status < 400 whose decoded message is a JSON-RPC error
\* object is returned to the caller, not raised: the flow counts the step as
\* done and stays in its scope, and from there its next move is to send the
\* next call of its script (place_stock_order included), or to end normally
\* after the last one.
C14_RpcErrorIsReturned ==
    [][\A t \in Tasks :
          /\ (pc[t] = "inflight" /\ Replied(t)' /\ reply'[t].status < 400
                  /\ IsErrorObject(MessageOf(reply'[t].text))) =>
                /\ outcome'[t].kind = "return"
                /\ outcome'[t].val = MessageOf(reply'[t].text)
                /\ pc'[t] = "scope"
                /\ prog[t] \in Flows => step'[t] = step[t] + 1
          /\ (prog[t] \in Flows /\ pc[t] = "scope" /\ IsErrorObject(outcome[t].val)
                  /\ pc'[t] /= pc[t]) =>
                IF step[t] < Len(Script(prog[t]))
                THEN /\ pc'[t] = "inflight"
                     /\ sent'[t] = 1
                     /\ request'[t].payload = Script(prog[t])[step[t] + 1]
                ELSE pc'[t] = "done"]_vars

\* C14 witness: in execute_trade, initialize has returned a JSON-RPC error
\* object and the flow is in its scope with place_stock_order next.
C14_Witness ==
    \E t \in Tasks :
        /\ prog[t] = "execute_trade"
        /\ pc[t] = "scope"
        /\ step[t] = 1
        /\ request[t].payload.method = "initialize"
        /\ outcome[t].kind = "return"
        /\ IsErrorObject(outcome[t].val)
        /\ ENABLED FlowCall(t)

\* C15 (as claimed): whenever a task is outside its client's scope (before
\* entering it, or after leaving it normally or with an error) the stored
\* token is empty, so no token of a finished scope is there to be sent when
\* the client is opened again.
C15_TokenClearedAtTeardown ==
    \A t \in Tasks :
        (prog[t] \in Programs /\ pc[t] \in {"outside", "done", "failed"})
            => session_id[client[t]] = None

\* The state of task t.
TaskState(t) == <<pc[t], step[t], budget[t], request[t], reply[t], outcome[t], sent[t]>>
\* The state of client c.
ClientState(c) == <<session_id[c], http[c], opened[c]>>

\* C16: with two clients used at once in any interleaving, the token and
\* the connection of a client change only in a step of the task that uses
\* that client; a token a client newly stores is the header value of the
\* reply its own task has just received; a request is built from the token
\* of the task's own client.
C16_SessionsIsolated ==
    [][\A t \in Tasks :
          LET c == client[t]
              other == CHOOSE u \in Tasks : u /= t
          IN /\ client[other] /= c
             /\ ClientState(c)' /= ClientState(c) =>
                   /\ TaskState(t)' /= TaskState(t)
                   /\ TaskState(other)' = TaskState(other)
                   /\ ClientState(client[other])' = ClientState(client[other])
             /\ session_id'[c] /= session_id[c] =>
                   /\ pc[t] = "inflight"
                   /\ reply'[t] /= NoReply
                   /\ session_id'[c] = reply'[t].sid
             /\ (request'[t] /= request[t] /\ request'[t] /= NoRequest) =>
                   /\ request'[t].token = session_id[c]
                   /\ DictGet(request'[t].headers, SidHeader)
                          = (IF Truthy(session_id[c]) THEN session_id[c] ELSE None)]_vars

\* C16 witness: both tasks have a call in flight and the two clients hold
\* different tokens, each sent in its own task's request.
C16_Witness ==
    /\ \A t \in Tasks : pc[t] = "inflight"
    /\ session_id["c1"] = "A"
    /\ session_id["c2"] = "B"
    /\ \A t \in Tasks : request[t].headers[SidHeader] = session_id[client[t]]

\* C17: with calls in flight at once on one client, the stored token changes
\* only when a reply is processed, and then to that reply's header value;
\* each processed reply leaves the token equal to its own (non-empty) header
\* value if its status is < 400 and else as it was, so after all calls the
\* token is that of the last processed such reply; and a request in flight
\* keeps the headers it was built with when another call's reply changes the
\* stored token.
C17_ConcurrentCalls ==
    [][\A t \in Tasks :
          LET c == client[t]
          IN /\ session_id'[c] /= session_id[c] =>
                   \E u \in Tasks :
                       /\ client[u] = c
                       /\ pc[u] = "inflight"
                       /\ pc'[u] /= "inflight"
                       /\ reply'[u] /= NoReply
                       /\ session_id'[c] = reply'[u].sid
             /\ (pc[t] = "inflight" /\ pc'[t] /= "inflight") =>
                   session_id'[c] = (IF reply'[t].status < 400 /\ Truthy(reply'[t].sid)
                                     THEN reply'[t].sid
                                     ELSE session_id[c])
             /\ (pc[t] = "inflight" /\ pc'[t] = "inflight") =>
                   /\ request'[t] = request[t]
                   /\ DictGet(request'[t].headers, SidHeader)
                          = (IF Truthy(request[t].token) THEN request[t].token ELSE None)]_vars

\* C17 witness: both requests were built while the client had no token; the
\* reply to t2 has been processed and stored token A; the request of t1 is
\* still in flight without it.
C17_Witness ==
    /\ client["t1"] = client["t2"]
    /\ pc["t1"] = "inflight"
    /\ SidHeader \notin DOMAIN request["t1"].headers
    /\ request["t2"].token = None
    /\ reply["t2"].sid = "A"
    /\ session_id["c1"] = "A"

\* C18: a reply with status >= 400 makes the call fail with the HTTP error
\* and changes nothing the client holds (token, http session), also when the
\* reply carries an mcp-session-id header.
C18_ErrorReplyChangesNothing ==
    [][\A t \in Tasks :
          (pc[t] = "inflight" /\ pc'[t] /= "inflight"
              /\ reply'[t] /= NoReply /\ reply'[t].status >= ErrorStatusFloor)
          => /\ outcome'[t].kind = "raise"
             /\ outcome'[t].err = "http"
             /\ session_id' = session_id
             /\ http' = http
             /\ opened' = opened]_vars

\* C18 witness: a call has failed on an error reply that carried a token
\* other than the one the client holds.
C18_Witness ==
    \E t \in Tasks :
        /\ Replied(t)
        /\ reply[t].status >= ErrorStatusFloor
        /\ Truthy(reply[t].sid)
        /\ Truthy(session_id[client[t]])
        /\ session_id[client[t]] /= reply[t].sid
        /\ outcome[t].err = "http"

\* C19: a reply with status < 400 that carries a (non-empty) mcp-session-id
\* header and a body that is neither SSE with a parseable line nor JSON makes
\* the call fail with the unexpected-response error, with the token already
\* overwritten by the header value; the next request the caller builds
\* without a header override carries that token.
C19_TokenStoredBeforeDecodeFails ==
    [][\A t \in Tasks :
          LET c == client[t]
          IN /\ (pc[t] = "inflight" /\ pc'[t] /= "inflight" /\ reply'[t] /= NoReply
                    /\ reply'[t].status < ErrorStatusFloor
                    /\ Truthy(reply'[t].sid)
                    /\ ParseableLines(reply'[t].text) = {}
                    /\ ~JsonLoads(reply'[t].text).ok)
                 => /\ outcome'[t].kind = "raise"
                    /\ outcome'[t].err = "unexpected"
                    /\ session_id'[c] = reply'[t].sid
             /\ (pc[t] /= "inflight" /\ pc'[t] = "inflight"
                    /\ outcome[t].err = "unexpected"
                    /\ Truthy(reply[t].sid)
                    /\ SidHeader \notin DOMAIN request'[t].extra)
                 => DictGet(request'[t].headers, SidHeader) = reply[t].sid]_vars

\* C19 witness: the request was built with token A, the reply carried token
\* B and an undecodable body: the call has failed and the client holds B.
C19_Witness ==
    \E t \in Tasks :
        /\ Replied(t)
        /\ reply[t].status < ErrorStatusFloor
        /\ reply[t].sid = "B"
        /\ request[t].token = "A"
        /\ outcome[t].err = "unexpected"
        /\ session_id[client[t]] = "B"

\* C20: once a client's token is non-empty it is never empty again: no step
\* (a reply with an empty-string or absent header, a failure, leaving the
\* scope) clears it.
C20_TokenNeverCleared ==
    [][\A c \in Clients : Truthy(session_id[c]) => Truthy(session_id'[c])]_vars

\* C20 witness: the client holds a token after processing a reply with
\* status < 400 whose mcp-session-id header is the empty string.
C20_Witness ==
    \E t \in Tasks :
        /\ Replied(t)
        /\ reply[t].status < ErrorStatusFloor
        /\ reply[t].sid = ""
        /\ Truthy(request[t].token)
        /\ session_id[client[t]] = request[t].token

====
